---- MODULE Spec2Model ----
(***************************************************************************)
(* Overnight_Futures: the liquidity selector (comp_liquid_contract.py) and *)
(* the reference price builder (load_reference_prices.py) over the sqlite  *)
(* store filled by load_contracts.py.                                      *)
(*                                                                         *)
(* Dates are day numbers (julianday differences are integer differences).  *)
(* A text value that sqlite compares as a string ('HH:MM', 'HH:MM:SS',     *)
(* 'YYYY-MM-DD HH:MM') is the sequence of its zero-padded fields, compared *)
(* lexicographically, a proper prefix sorting first.                       *)
(***************************************************************************)
EXTENDS Integers, Sequences, FiniteSets, TLC

VARIABLES
    inbox,      \* lines of the Kibot text files waiting in the data folder
    contracts,  \* contracts table: contract_id -> [symbol_code, last_trade_date]
    bars,       \* bars_5min table
    liquid,     \* liquid_contract_daily table
    refp,       \* daily_reference_prices table
    last        \* the call that ran last, with what it computed and returned

vars == <<inbox, contracts, bars, liquid, refp, last>>

\* SQL NULL / Python None
NULL == -1

----------------------------------------------------------------------------
\* config.py and the literals of process_symbol

MAX_DAYS_TO_LAST_DAY == 100
MIN_DAILY_VOLUME == 1500
REQUIRED_OPEN_START == <<10, 0>>
REQUIRED_OPEN_END == <<10, 30>>
OPEN_TIME == <<9, 30>>
CLOSE_TIME == <<16, 0>>

----------------------------------------------------------------------------
\* Bounds and input universes

MaxLines == 3
MaxRefLines == 3

Symbols == {"ES", "NQ"}
ContractIds == {1, 2, 3}
SymbolOf(cid) == IF cid = 3 THEN "NQ" ELSE "ES"

\* the open and close written on the file line of a bar: every bar of the
\* universe carries its own pair of values, so a price names its bar
LineOpen(cid, d, t) == ((cid * 10 + d) * 10000 + t[1] * 100 + t[2]) * 2
LineClose(cid, d, t) == LineOpen(cid, d, t) + 1

Line(cid, d, t, v) ==
    [contract_id |-> cid, date |-> d, hh |-> t[1], mm |-> t[2], ss |-> NULL,
     open |-> LineOpen(cid, d, t), close |-> LineClose(cid, d, t), volume |-> v]

SameKey(a, b) ==
    /\ a.contract_id = b.contract_id
    /\ a.date = b.date /\ a.hh = b.hh /\ a.mm = b.mm /\ a.ss = b.ss

RECURSIVE SubsetsUpTo(_, _)
SubsetsUpTo(U, n) ==
    IF n = 0 THEN {{}}
    ELSE LET P == SubsetsUpTo(U, n - 1)
         IN  P \cup {S \cup {x} : S \in P, x \in U}

\* files hold one line per timestamp
KeyUnique(S) == \A a, b \in S : SameKey(a, b) => a = b

SelDates == {0, 1}
SelTimes == {<<10, 0>>, <<15, 55>>}
SelVolumes == {NULL, 750, 1500}
SelLines ==
    {Line(c, d, t, v) : c \in {1, 2}, d \in SelDates, t \in SelTimes, v \in SelVolumes}
\* last_trade_date of contract 1; contract 2 expires on day 101
SelLastTradeDates == {NULL, 0, 101}

RefDates == {0, 1, 2}
RefTimes == {<<9, 25>>, <<9, 30>>, <<10, 0>>, <<16, 0>>}
RefLines ==
    {Line(c, d, t, 1500) : c \in {1, 2}, d \in RefDates, t \in RefTimes}
        \cup {Line(3, 0, <<10, 0>>, 1500)}

\* inputs of the command-line runs: both contracts of ES on two days, and NQ
MaxCliLines == 3
CliLines ==
    {Line(c, d, <<10, 0>>, 1500) : c \in {1, 2}, d \in {0, 1}}
        \cup {Line(3, 0, <<10, 0>>, 1500)}

\* a store whose timestamps carry seconds ('YYYY-MM-DD HH:MM:SS') next to
\* those the loader writes: bars of contract 1 on day 0, each with values of
\* its own, besides its 10:00 bar
MaxSecBars == 3
SecTimes == {<<9, 30>>, <<15, 55>>, <<16, 0>>}
SecSeconds == {NULL, 0, 30}
SecBar(t, ss) ==
    [contract_id |-> 1, date |-> 0, hh |-> t[1], mm |-> t[2], ss |-> ss,
     open |-> LineOpen(1, 0, t) * 100 + (ss + 1) * 2,
     close |-> LineOpen(1, 0, t) * 100 + (ss + 1) * 2 + 1, volume |-> 1500]
SecBars == {SecBar(t, ss) : t \in SecTimes, ss \in SecSeconds}

\* stored reference prices the statistics read: day 0 is a Monday (days 0, 4,
\* 7, 8 are Mon, Fri, Mon, Tue); a row has all three prices, or lacks one, or
\* has a zero price_open or prev_close
MaxStatRows == 3
StatDates == {0, 4, 7, 8}
StatKinds == {"all", "no_open", "no_close", "no_prev", "zero_open", "zero_prev"}
StatRow(d, k) ==
    [symbol_code |-> "ES", trade_date |-> d,
     price_open |-> IF k = "no_open" THEN NULL ELSE IF k = "zero_open" THEN 0 ELSE 100 + d,
     price_close |-> IF k = "no_close" THEN NULL ELSE 110 + d,
     prev_close |-> IF k = "no_prev" THEN NULL ELSE IF k = "zero_prev" THEN 0 ELSE 90 + d]
StatRows == {StatRow(d, k) : d \in StatDates, k \in StatKinds}
\* --start-date and --end-date, NULL when not given
StatRanges == {<<NULL, NULL>>, <<1, NULL>>, <<1, 7>>}

\* contents a contract file can have when it is read: the same timestamps may
\* come with other values in a later download
MaxFileLines == 2
FileVolumes == {NULL, 750, 1500}
FileContents(cid) ==
    {S \in SubsetsUpTo({Line(cid, d, <<10, 0>>, v) : d \in {0, 1}, v \in FileVolumes},
                       MaxFileLines) : KeyUnique(S)}

\* file names, as sequences of characters: letters in and out of MONTH_CODES,
\* decimal digits, a dot, and "sup2" for SUPERSCRIPT TWO (U+00B2), a character
\* str.isdigit() accepts and int() does not
MaxNameLen == 5
NameChars == {"E", "F", "f", "1", "8", "sup2", "."}
FileNames == UNION {[1..k -> NameChars] : k \in 0..MaxNameLen}

\* bars around the two ends of the required open window
MaxWinLines == 2
WinTimes == {<<9, 55>>, <<10, 0>>, <<10, 30>>, <<10, 35>>}
WinLines == {Line(c, d, t, 1500) : c \in {1, 2}, d \in {0, 1}, t \in WinTimes}

\* stored reference prices across skipped weeks: days 4, 7, 14, 22 are a Friday,
\* the Monday after it, the Monday a week later and the Tuesday of the week
\* after that; ranges starting after day 4
MaxWeekRows == 3
WeekDates == {4, 7, 14, 22}
WeekRows == {StatRow(d, k) : d \in WeekDates, k \in {"all", "no_prev"}}
WeekRanges == {<<NULL, NULL>>, <<5, NULL>>}

----------------------------------------------------------------------------
\* sqlite text comparison and date/time functions

RECURSIVE StrLess(_, _)
StrLess(a, b) ==
    IF b = <<>> THEN FALSE
    ELSE IF a = <<>> THEN TRUE
    ELSE IF Head(a) # Head(b) THEN Head(a) < Head(b)
    ELSE StrLess(Tail(a), Tail(b))

StrLeq(a, b) == a = b \/ StrLess(a, b)

\* x BETWEEN lo AND hi
Between(x, lo, hi) == StrLeq(lo, x) /\ StrLeq(x, hi)

\* bars_5min.timestamp, 'YYYY-MM-DD HH:MM' as load_bars_for_file writes it
Timestamp(b) ==
    IF b.ss = NULL THEN <<b.date, b.hh, b.mm>> ELSE <<b.date, b.hh, b.mm, b.ss>>

\* date(timestamp)
SqlDate(b) == b.date

\* time(timestamp): always 'HH:MM:SS'
SqlTime(b) == <<b.hh, b.mm, IF b.ss = NULL THEN 0 ELSE b.ss>>

\* faulty variant: the seconds kept, strftime('%H:%M:%S', timestamp)
StrfHMS(b) == <<b.hh, b.mm, IF b.ss = NULL THEN 0 ELSE b.ss>>

\* strftime('%H:%M', timestamp)
StrfHM(b) == <<b.hh, b.mm>>

----------------------------------------------------------------------------
\* parse_contract_name.py

MONTH_CODES == {"F", "G", "H", "J", "K", "M", "N", "Q", "U", "V", "X", "Z"}

\* name.rfind('.'), 0 when there is no dot
RECURSIVE rfind(_, _)
rfind(name, i) ==
    IF i = 0 THEN 0 ELSE IF name[i] = "." THEN i ELSE rfind(name, i - 1)

\* Path(filename).stem: the name up to its last dot, unless that dot is the
\* first or the last character; Path(".") has an empty name
stem(filename) ==
    IF filename = <<".">> THEN <<>>
    ELSE LET i == rfind(filename, Len(filename))
         IN  IF 1 < i /\ i < Len(filename) THEN SubSeq(filename, 1, i - 1)
             ELSE filename

DecimalDigits == {"0", "1", "2", "3", "4", "5", "6", "7", "8", "9"}

\* str.isdigit(): every character a digit, superscript digits included
isdigit(str) ==
    /\ Len(str) > 0
    /\ \A i \in 1..Len(str) : str[i] \in DecimalDigits \cup {"sup2"}

DigitValue(c) ==
    CASE c = "0" -> 0 [] c = "1" -> 1 [] c = "2" -> 2 [] c = "3" -> 3 [] c = "4" -> 4
      [] c = "5" -> 5 [] c = "6" -> 6 [] c = "7" -> 7 [] c = "8" -> 8 [] c = "9" -> 9

\* int(year_two) raises ValueError unless every character is a decimal digit
IntRaises(str) == \E i \in 1..Len(str) : str[i] \notin DecimalDigits
int(year_two) == DigitValue(year_two[1]) * 10 + DigitValue(year_two[2])

None == [kind |-> "None"]
ValueError == [kind |-> "ValueError"]
Parsed(symbol_code, month_code, year) ==
    [kind |-> "tuple", symbol_code |-> symbol_code, month_code |-> month_code,
     year |-> year]

parse_contract_filename(filename) ==
    LET st == stem(filename)
        n == Len(st)
    IN  IF n < 3 THEN None
        ELSE LET month_code == st[n - 2]
                 year_two == SubSeq(st, n - 1, n)
             IN  IF month_code \notin MONTH_CODES \/ ~isdigit(year_two) THEN None
                 ELSE IF IntRaises(year_two) THEN ValueError
                 ELSE Parsed(SubSeq(st, 1, n - 3), month_code, 2000 + int(year_two))

----------------------------------------------------------------------------
\* load_contracts.py

\* INSERT OR REPLACE INTO bars_5min, one line
InsertOrReplaceBar(table, line) ==
    {b \in table : ~SameKey(b, line)} \cup {line}

RECURSIVE LoadLines(_, _)
LoadLines(table, lines) ==
    IF lines = {} THEN table
    ELSE LET l == CHOOSE x \in lines : TRUE
         IN  LoadLines(InsertOrReplaceBar(table, l), lines \ {l})

FileLines(cid) == {l \in inbox : l.contract_id = cid}

\* last after a call that computes nothing; before is the output table of a
\* pipeline stage as the call found it
NoCall == [op |-> "load", symbol_code |-> "", dry_run |-> FALSE,
           winners |-> {}, rows |-> <<>>, ret |-> NULL, before |-> {}]

LoadBarsForFile(cid) ==
    /\ FileLines(cid) # {}
    /\ ~(FileLines(cid) \subseteq bars)
    /\ bars' = LoadLines(bars, FileLines(cid))
    /\ last' = NoCall
    /\ UNCHANGED <<inbox, contracts, liquid, refp>>

\* load_bars_for_file(conn, filepath, contract_id), the lines of the file
\* given as they are when it is opened
load_bars_for_file(contract_id, lines) ==
    /\ bars' = LoadLines(bars, lines)
    /\ last' = [op |-> "load_bars_for_file", symbol_code |-> "", dry_run |-> FALSE,
                winners |-> {}, rows |-> <<>>, ret |-> NULL, before |-> bars,
                contract_id |-> contract_id, lines |-> lines]
    /\ UNCHANGED <<inbox, contracts, liquid, refp>>

\* one call, as load_all makes it for a file of the data folder
ParseContractFilename(filename) ==
    /\ last = NoCall
    /\ last' = [op |-> "parse_contract_filename", symbol_code |-> "",
                dry_run |-> FALSE, winners |-> {}, rows |-> <<>>,
                ret |-> parse_contract_filename(filename), before |-> {},
                filename |-> filename]
    /\ UNCHANGED <<inbox, contracts, bars, liquid, refp>>

----------------------------------------------------------------------------
\* comp_liquid_contract.py

\* bars_5min b JOIN contracts c ON c.contract_id = b.contract_id
\*   WHERE c.symbol_code = ?
SymbolBars(symbol_code) ==
    {b \in bars : b.contract_id \in DOMAIN contracts
                  /\ contracts[b.contract_id].symbol_code = symbol_code}

InOpenWindow(b) == Between(SqlTime(b), REQUIRED_OPEN_START, REQUIRED_OPEN_END)

\* faulty variant: the open-window condition dropped from allowed_dates
allowed_dates_any(symbol_code) ==
    {SqlDate(b) : b \in SymbolBars(symbol_code)}

\* faulty variant: only bars of contracts inside the expiry window admit a date
allowed_dates_eligible(symbol_code) ==
    {SqlDate(b) : b \in {x \in SymbolBars(symbol_code) :
        /\ InOpenWindow(x)
        /\ contracts[x.contract_id].last_trade_date # NULL
        /\ 0 <= contracts[x.contract_id].last_trade_date - SqlDate(x)
        /\ contracts[x.contract_id].last_trade_date - SqlDate(x) <= MAX_DAYS_TO_LAST_DAY}}

allowed_dates(symbol_code) ==
    {SqlDate(b) : b \in {x \in SymbolBars(symbol_code) : InOpenWindow(x)}}

\* faulty variant: a contract without last_trade_date passes the expiry filter
ExpiryOkOrUnset(b) ==
    LET ltd == contracts[b.contract_id].last_trade_date
    IN  \/ ltd = NULL
        \/ 0 <= ltd - SqlDate(b) /\ ltd - SqlDate(b) <= MAX_DAYS_TO_LAST_DAY

\* faulty variant: the lower bound exclusive (expiry day itself not eligible)
ExpiryOkStrict(b) ==
    LET ltd == contracts[b.contract_id].last_trade_date
    IN  /\ ltd # NULL
        /\ 0 < ltd - SqlDate(b)
        /\ ltd - SqlDate(b) <= MAX_DAYS_TO_LAST_DAY

\* julianday(c.last_trade_date) - julianday(date(b.timestamp)) BETWEEN 0 AND ?
ExpiryOk(b) ==
    LET ltd == contracts[b.contract_id].last_trade_date
    IN  /\ ltd # NULL
        /\ 0 <= ltd - SqlDate(b)
        /\ ltd - SqlDate(b) <= MAX_DAYS_TO_LAST_DAY

Coalesce(v, dflt) == IF v = NULL THEN dflt ELSE v

\* SUM(COALESCE(b.volume, 0))
RECURSIVE SumVolume(_)
SumVolume(S) ==
    IF S = {} THEN 0
    ELSE LET b == CHOOSE x \in S : TRUE
         IN  Coalesce(b.volume, 0) + SumVolume(S \ {b})

\* faulty variant: HAVING vol_sum > ?
VolumeOkStrict(vol_sum) == vol_sum > MIN_DAILY_VOLUME

VolumeOk(vol_sum) == vol_sum >= MIN_DAILY_VOLUME

daily(symbol_code) ==
    LET src == {b \in SymbolBars(symbol_code) :
                    ExpiryOk(b) /\ SqlDate(b) \in allowed_dates(symbol_code)}
        grp(d, c) == {b \in src : SqlDate(b) = d /\ b.contract_id = c}
        all == {[trade_date |-> SqlDate(b), contract_id |-> b.contract_id,
                 vol_sum |-> SumVolume(grp(SqlDate(b), b.contract_id))] : b \in src}
    IN  {r \in all : VolumeOk(r.vol_sum)}

\* faulty variant: ties go to the highest contract_id (ORDER BY ... contract_id DESC)
RankedBeforeHighestId(a, b) ==
    \/ a.vol_sum > b.vol_sum
    \/ a.vol_sum = b.vol_sum /\ a.contract_id > b.contract_id

\* ORDER BY vol_sum DESC, contract_id
RankedBefore(a, b) ==
    \/ a.vol_sum > b.vol_sum
    \/ a.vol_sum = b.vol_sum /\ a.contract_id < b.contract_id

\* the rows of ranked with rn = 1
ranked(symbol_code) ==
    LET D == daily(symbol_code)
    IN  {r \in D : ~\E o \in D : o.trade_date = r.trade_date /\ RankedBefore(o, r)}

winners(symbol_code) ==
    {<<r.trade_date, r.contract_id>> : r \in ranked(symbol_code)}

\* the unique key of liquid_contract_daily
LiquidKey(r) == <<r.symbol_code, r.trade_date>>

\* faulty variant: INSERT OR IGNORE (the stored row wins)
InsertOrIgnoreLiquid(table, rows) ==
    table \cup {r \in rows : ~\E t \in table : LiquidKey(r) = LiquidKey(t)}

\* faulty variant: the rows of the symbols written are deleted first
ReplaceSymbolsLiquid(table, rows) ==
    {t \in table : ~\E r \in rows : r.symbol_code = t.symbol_code} \cup rows

\* INSERT OR REPLACE INTO liquid_contract_daily
UpsertLiquid(table, rows) ==
    {t \in table : ~\E r \in rows : LiquidKey(r) = LiquidKey(t)} \cup rows

compute_liquid_contracts(symbol_code, dry_run) ==
    LET w == winners(symbol_code)
        rows == {[symbol_code |-> symbol_code, trade_date |-> x[1],
                  contract_id |-> x[2]] : x \in w}
    IN  /\ liquid' = IF w = {} \/ dry_run THEN liquid ELSE UpsertLiquid(liquid, rows)
        /\ last' = [op |-> "compute_liquid_contracts", symbol_code |-> symbol_code,
                    dry_run |-> dry_run, winners |-> w, rows |-> <<>>, ret |-> NULL,
                    before |-> liquid]
        /\ UNCHANGED <<inbox, contracts, bars, refp>>

----------------------------------------------------------------------------
\* load_reference_prices.py

\* the unique key of daily_reference_prices
ReferenceKey(r) == <<r.symbol_code, r.trade_date>>

Field(b, field) == IF field = "open" THEN b.open ELSE b.close

\* ORDER BY timestamp DESC LIMIT 1
LatestBar(S) == CHOOSE b \in S : \A o \in S : StrLeq(Timestamp(o), Timestamp(b))

\* faulty variant: the comparator is always <= (inclusive ignored)
TimeMatchesInclusive(b, time, inclusive) == StrLeq(StrfHM(b), time)

TimeMatches(b, time, inclusive) ==
    IF inclusive THEN StrLeq(StrfHM(b), time) ELSE StrLess(StrfHM(b), time)

get_price_at(contract_id, date, time, inclusive) ==
    LET S == {b \in bars : /\ b.contract_id = contract_id
                           /\ SqlDate(b) = date
                           /\ TimeMatches(b, time, inclusive)}
    IN  IF S = {} THEN NULL ELSE LatestBar(S).close

\* LIMIT 1 without ORDER BY: any matching row may be the one returned, so the
\* result is the set of values the call can return
get_exact_field(contract_id, date, time, field) ==
    LET S == {b \in bars : /\ b.contract_id = contract_id
                           /\ SqlDate(b) = date
                           /\ StrfHM(b) = time}
    IN  IF S = {} THEN {NULL} ELSE {Field(b, field) : b \in S}

get_last_before(contract_id, date, time, field) ==
    LET S == {b \in bars : /\ b.contract_id = contract_id
                           /\ SqlDate(b) = date
                           /\ StrLess(StrfHM(b), time)}
    IN  IF S = {} THEN NULL ELSE Field(LatestBar(S), field)

\* ORDER BY trade_date
RECURSIVE SortedSeq(_)
SortedSeq(S) ==
    IF S = {} THEN <<>>
    ELSE LET m == CHOOSE x \in S : \A y \in S : x <= y
         IN  <<m>> \o SortedSeq(S \ {m})

fetch_trade_dates(symbol_code) ==
    SortedSeq({r.trade_date : r \in {x \in liquid : x.symbol_code = symbol_code}})

fetch_contract_for_date(symbol_code, trade_date) ==
    LET S == {r \in liquid : r.symbol_code = symbol_code /\ r.trade_date = trade_date}
    IN  IF S = {} THEN NULL ELSE (CHOOSE r \in S : TRUE).contract_id

\* faulty variant: prev_close read from the contract that won on the previous day
PrevCloseContractOfPrevDay(symbol_code, days, idx) ==
    fetch_contract_for_date(symbol_code, days[IF idx > 1 THEN idx - 1 ELSE idx])

\* the contract whose bars give prev_close of entry idx: cid, the winner of
\* the current day
PrevCloseContract(symbol_code, days, idx) ==
    fetch_contract_for_date(symbol_code, days[idx])

\* faulty variant: prev_close copied from the price_close stored for the entry
\* before (NULL while nothing is stored)
PrevCloseStored(symbol_code, days, idx) ==
    IF idx > 1 /\ \E r \in refp : ReferenceKey(r) = <<symbol_code, days[idx - 1]>>
    THEN (CHOOSE r \in refp : ReferenceKey(r) = <<symbol_code, days[idx - 1]>>).price_close
    ELSE NULL

\* faulty variant: the previous day found by date arithmetic, for every entry
PrevCloseCalendar(symbol_code, days, idx) ==
    get_price_at(fetch_contract_for_date(symbol_code, days[idx]), days[idx] - 1,
                 CLOSE_TIME, FALSE)

\* prev_close of entry idx (1-based; Python's idx > 0 is idx > 1 here)
PrevClose(symbol_code, days, idx) ==
    IF idx > 1
    THEN get_price_at(PrevCloseContract(symbol_code, days, idx), days[idx - 1],
                      CLOSE_TIME, FALSE)
    ELSE NULL

\* faulty variant: the "simpler solution" of the comment, the last close before 09:30
PriceOpenSimple(e, cid, day) == get_price_at(cid, day, OPEN_TIME, FALSE)

\* price_open given the result e of the exact lookup
PriceOpen(e, cid, day) ==
    IF e = NULL THEN get_last_before(cid, day, OPEN_TIME, "close") ELSE e

\* faulty variant: price_close may come from the bar starting at 16:00
PriceCloseInclusive(cid, day) == get_price_at(cid, day, CLOSE_TIME, TRUE)

PriceClose(cid, day) == get_price_at(cid, day, CLOSE_TIME, FALSE)

\* faulty variant: an entry whose price_open is unresolved is skipped
LoopBodySkipUnresolved(symbol_code, days, idx) ==
    LET day == days[idx]
        cid == fetch_contract_for_date(symbol_code, day)
    IN  IF cid = NULL THEN {<<>>}
        ELSE {IF PriceOpen(e, cid, day) = NULL THEN <<>>
              ELSE <<[symbol_code |-> symbol_code, trade_date |-> day,
                      price_open |-> PriceOpen(e, cid, day),
                      price_close |-> PriceClose(cid, day),
                      prev_close |-> PrevClose(symbol_code, days, idx)]>> :
                    e \in get_exact_field(cid, day, OPEN_TIME, "open")}

\* one pass of the loop body: the rows it can append (none when cid is None)
LoopBody(symbol_code, days, idx) ==
    LET day == days[idx]
        cid == fetch_contract_for_date(symbol_code, day)
    IN  IF cid = NULL THEN {<<>>}
        ELSE {<<[symbol_code |-> symbol_code, trade_date |-> day,
                 price_open |-> PriceOpen(e, cid, day),
                 price_close |-> PriceClose(cid, day),
                 prev_close |-> PrevClose(symbol_code, days, idx)]>> :
                    e \in get_exact_field(cid, day, OPEN_TIME, "open")}

RECURSIVE BuildRows(_, _, _)
BuildRows(symbol_code, days, idx) ==
    IF idx > Len(days) THEN {<<>>}
    ELSE {h \o t : h \in LoopBody(symbol_code, days, idx),
                   t \in BuildRows(symbol_code, days, idx + 1)}

\* faulty variant: the stored row of the same trade_date is replaced, whatever
\* its symbol
InsertOrReplaceReferenceByDate(table, row) ==
    {t \in table : t.trade_date # row.trade_date} \cup {row}

InsertOrReplaceReference(table, row) ==
    {t \in table : ReferenceKey(t) # ReferenceKey(row)} \cup {row}

RECURSIVE upsert_reference_prices(_, _)
upsert_reference_prices(table, rows) ==
    IF rows = <<>> THEN table
    ELSE upsert_reference_prices(InsertOrReplaceReference(table, Head(rows)), Tail(rows))

process_symbol(symbol_code, dry_run) ==
    LET days == fetch_trade_dates(symbol_code)
    IN  \E rows \in BuildRows(symbol_code, days, 1) :
            /\ refp' = IF rows = <<>> \/ dry_run THEN refp
                       ELSE upsert_reference_prices(refp, rows)
            /\ last' = [op |-> "process_symbol", symbol_code |-> symbol_code,
                        dry_run |-> dry_run, winners |-> {}, rows |-> rows,
                        ret |-> Len(rows), before |-> refp]
            /\ UNCHANGED <<inbox, contracts, bars, liquid>>

----------------------------------------------------------------------------
\* The scripts as run from the command line: one sqlite3 connection per run.
\* A connection sees its own uncommitted writes (tx_liquid, tx_refp); commit
\* makes them the stored tables, rollback and close drop them.

Connect == [liquid |-> liquid, refp |-> refp,
            tx_liquid |-> liquid, tx_refp |-> refp, in_tx |-> FALSE]

\* cur.execute("BEGIN") with isolation_level None
Begin(conn) == [conn EXCEPT !.in_tx = TRUE]

Commit(conn) ==
    [conn EXCEPT !.liquid = conn.tx_liquid, !.refp = conn.tx_refp, !.in_tx = FALSE]

Rollback(conn) ==
    [conn EXCEPT !.tx_liquid = conn.liquid, !.tx_refp = conn.refp, !.in_tx = FALSE]

\* where the database makes a call raise: nowhere, at a SELECT, at the last
\* row of executemany, at conn.commit()
FailModes == {"none", "read", "write", "commit"}

\* rows of executemany executed before it raises (all n when it does not)
RowsWritten(n, fail) == IF fail = "write" THEN n - 1 ELSE n

\* the write of n rows and its commit raise
WriteRaises(n, fail) == fail \in {"write", "commit"}

\* faulty variant: the dry_run flag ignored
ReturnsEarlyIgnoringDryRun(found, dry_run) == ~found

\* the returns before the write: nothing found, or dry_run
ReturnsEarly(found, dry_run) == ~found \/ dry_run

\* faulty variant: an empty result raises
NoDataIsErrorAlways == TRUE

\* an empty result is logged and returned from, not raised
NoDataIsError == FALSE

\* faulty variant: no try/except around a symbol, the loop ends at the first error
BatchAborts(raised) == ~raised

\* except Exception: logging.exception(...), and on to the next symbol
BatchContinues(raised) == TRUE

\* the winners w as fetchall() returns them, ORDER BY trade_date
WinnerRows(symbol_code, w) ==
    LET ds == SortedSeq({x[1] : x \in w})
    IN  [i \in 1..Len(ds) |->
            [symbol_code |-> symbol_code, trade_date |-> ds[i],
             contract_id |-> (CHOOSE x \in w : x[1] = ds[i])[2]]]

\* compute_liquid_contracts from the fetchall on, w being the winners
SelectorWrite(conn, symbol_code, dry_run, fail, w) ==
    LET rows == WinnerRows(symbol_code, w)
        n == Len(rows)
        out(c, raised) == [conn |-> c, raised |-> raised, winners |-> w, ret |-> NULL]
    IN  IF n = 0 /\ NoDataIsError THEN out(conn, TRUE)
        ELSE IF ReturnsEarly(n > 0, dry_run) THEN out(conn, FALSE)
        ELSE LET written == [conn EXCEPT
                     !.tx_liquid = UpsertLiquid(conn.tx_liquid,
                                       {rows[i] : i \in 1..RowsWritten(n, fail)}),
                     !.in_tx = TRUE]
             IN  IF WriteRaises(n, fail) THEN out(written, TRUE)
                 ELSE out(Commit(written), FALSE)

\* compute_liquid_contracts on connection conn, the database failing as fail says
SelectorCall(conn, symbol_code, dry_run, fail) ==
    IF fail = "read"
    THEN [conn |-> conn, raised |-> TRUE, winners |-> {}, ret |-> NULL]
    ELSE CHOOSE out \in {SelectorWrite(conn, symbol_code, dry_run, fail, w) :
                            w \in {winners(symbol_code)}} : TRUE

\* process_symbol on connection conn, rows being what its loop built
BuilderCall(conn, symbol_code, dry_run, fail, rows) ==
    LET n == Len(rows)
        out(c, raised, ret) == [conn |-> c, raised |-> raised, winners |-> {}, ret |-> ret]
    IN  IF fail = "read" THEN out(conn, TRUE, NULL)
        ELSE IF n = 0 /\ NoDataIsError THEN out(conn, TRUE, NULL)
        ELSE IF ReturnsEarly(n > 0, dry_run) THEN out(conn, FALSE, n)
        ELSE LET written == [conn EXCEPT
                     !.tx_refp = upsert_reference_prices(conn.tx_refp,
                                     SubSeq(rows, 1, RowsWritten(n, fail))),
                     !.in_tx = TRUE]
             IN  IF WriteRaises(n, fail)
                 THEN out(written, TRUE, NULL)
                 ELSE out(Commit(written), FALSE, n)

\* the loop of comp_liquid_contract_all.main from symbol i on
RECURSIVE SelectorBatch(_, _, _, _, _)
SelectorBatch(conn, symbols, i, dry_run, fails) ==
    IF i > Len(symbols) THEN [conn |-> conn, processed |-> <<>>, raised |-> FALSE]
    ELSE LET next(r) ==
                 IF BatchContinues(r.raised)
                 THEN CHOOSE out \in
                          {[rest EXCEPT !.processed = <<symbols[i]>> \o rest.processed] :
                              rest \in {SelectorBatch(r.conn, symbols, i + 1, dry_run, fails)}} :
                          TRUE
                 ELSE [conn |-> r.conn, processed |-> <<symbols[i]>>, raised |-> TRUE]
         IN  CHOOSE out \in
                 {next(r) : r \in {SelectorCall(conn, symbols[i], dry_run,
                                                fails[symbols[i]])}} : TRUE

\* process_symbols from symbol i on; total counts the symbols that returned
RECURSIVE BuilderBatch(_, _, _, _, _, _)
BuilderBatch(conn, symbols, i, dry_run, fails, built) ==
    IF i > Len(symbols)
    THEN [conn |-> conn, processed |-> <<>>, raised |-> FALSE, total |-> 0]
    ELSE LET next(r) ==
                 IF BatchContinues(r.raised)
                 THEN CHOOSE out \in
                          {[rest EXCEPT
                               !.processed = <<symbols[i]>> \o rest.processed,
                               !.total = rest.total + (IF r.raised THEN 0 ELSE r.ret)] :
                              rest \in {BuilderBatch(r.conn, symbols, i + 1, dry_run,
                                                     fails, built)}} : TRUE
                 ELSE [conn |-> r.conn, processed |-> <<symbols[i]>>, raised |-> TRUE,
                       total |-> 0]
         IN  CHOOSE out \in
                 {next(r) : r \in {BuilderCall(conn, symbols[i], dry_run,
                                               fails[symbols[i]], built[symbols[i]])}} :
                 TRUE

\* ORDER BY symbol_code
SymbolOrder == <<"ES", "NQ">>

\* all_symbols: the symbols table holds the symbol of every contract
all_symbols ==
    SelectSeq(SymbolOrder, LAMBDA s : \E c \in DOMAIN contracts : contracts[c].symbol_code = s)

\* SELECT DISTINCT symbol_code FROM liquid_contract_daily ORDER BY symbol_code
fetch_all_symbols ==
    SelectSeq(SymbolOrder, LAMBDA s : \E r \in liquid : r.symbol_code = s)

\* the --symbols option: omitted, or a list in an order of the caller's
SymbolArgs == {<<>>, <<"NQ", "ES">>}

FailsOnly(symbol_code, fail) ==
    [s \in Symbols |-> IF s = symbol_code THEN fail ELSE "none"]

\* a batch in which the database fails for one symbol at most
BatchFails == {FailsOnly(s, fail) : s \in Symbols, fail \in FailModes}

\* last after a command-line run: liquid' and refp' are what the closed
\* connection left stored
CliCall(op, symbols, dry_run, fails, r, conn) ==
    [op |-> op, symbol_code |-> IF Len(symbols) = 1 THEN symbols[1] ELSE "",
     dry_run |-> dry_run, winners |-> {}, rows |-> <<>>, ret |-> r.ret,
     before |-> [liquid |-> liquid, refp |-> refp],
     symbols |-> symbols, fails |-> fails, processed |-> r.processed,
     raised |-> r.raised, in_tx |-> conn.in_tx]

\* comp_liquid_contract.main: try the call, finally conn.close()
comp_liquid_contract_main(symbol_code, dry_run, fail) ==
    \E r \in {SelectorCall(Connect, symbol_code, dry_run, fail)} :
        /\ liquid' = r.conn.liquid
        /\ refp' = r.conn.refp
        /\ last' = CliCall("comp_liquid_contract", <<symbol_code>>, dry_run,
                           FailsOnly(symbol_code, fail),
                           [processed |-> <<symbol_code>>, raised |-> r.raised,
                            ret |-> NULL], r.conn)
        /\ UNCHANGED <<inbox, contracts, bars>>

\* load_reference_prices.main: with --dry-run BEGIN, the call, finally ROLLBACK
load_reference_prices_main(symbol_code, dry_run, fail) ==
    \E rows \in BuildRows(symbol_code, fetch_trade_dates(symbol_code), 1) :
        \E r \in {BuilderCall(IF dry_run THEN Begin(Connect) ELSE Connect,
                               symbol_code, dry_run, fail, rows)} :
        \E conn \in {IF dry_run THEN Rollback(r.conn) ELSE r.conn} :
            /\ liquid' = conn.liquid
            /\ refp' = conn.refp
            /\ last' = CliCall("load_reference_prices", <<symbol_code>>, dry_run,
                               FailsOnly(symbol_code, fail),
                               [processed |-> <<symbol_code>>, raised |-> r.raised,
                                ret |-> r.ret], conn)
            /\ UNCHANGED <<inbox, contracts, bars>>

\* comp_liquid_contract_all.main
comp_liquid_contract_all_main(dry_run, fails) ==
    \E r \in {SelectorBatch(Connect, all_symbols, 1, dry_run, fails)} :
        /\ liquid' = r.conn.liquid
        /\ refp' = r.conn.refp
        /\ last' = CliCall("comp_liquid_contract_all", all_symbols, dry_run, fails,
                           [processed |-> r.processed, raised |-> r.raised,
                            ret |-> NULL], r.conn)
        /\ UNCHANGED <<inbox, contracts, bars>>

\* load_reference_prices_all.main: return when there is no symbol; with
\* --dry-run BEGIN, process_symbols, finally ROLLBACK; else process_symbols and
\* conn.commit()
load_reference_prices_all_main(args, dry_run, fails) ==
    \E rES \in BuildRows("ES", fetch_trade_dates("ES"), 1),
       rNQ \in BuildRows("NQ", fetch_trade_dates("NQ"), 1) :
        \E symbols \in {IF args # <<>> THEN args ELSE fetch_all_symbols} :
        \E r \in {BuilderBatch(IF dry_run /\ symbols # <<>> THEN Begin(Connect)
                                ELSE Connect,
                                symbols, 1, dry_run, fails,
                                [s \in Symbols |-> IF s = "ES" THEN rES ELSE rNQ])} :
        \E conn \in {IF symbols = <<>> \/ r.raised THEN r.conn
                      ELSE IF dry_run THEN Rollback(r.conn) ELSE Commit(r.conn)} :
            /\ liquid' = conn.liquid
            /\ refp' = conn.refp
            /\ last' = CliCall("load_reference_prices_all", symbols, dry_run, fails,
                               [processed |-> r.processed, raised |-> r.raised,
                                ret |-> r.total], conn)
            /\ UNCHANGED <<inbox, contracts, bars>>

----------------------------------------------------------------------------
\* calc_overnight_stats.py and calc_overnight_stats_we.py
\* A log return ln(x / y) is the pair <<x, y>>, a sum of two is the two pairs
\* in a row, NaN is the empty tuple. The five statistics of a series are
\* functions of the values dropna() keeps, which stand for them.

NaN == <<>>

Ln(x, y) == <<x, y>>

Add(a, b) == IF a = NaN \/ b = NaN THEN NaN ELSE a \o b

\* SELECT ... WHERE symbol_code = ? AND trade_date BETWEEN ? AND ? ORDER BY trade_date
read_sql_query(symbol, start_date, end_date) ==
    LET sel == {r \in refp : /\ r.symbol_code = symbol
                             /\ start_date <= r.trade_date
                             /\ r.trade_date <= end_date}
        ds == SortedSeq({r.trade_date : r \in sel})
    IN  [i \in 1..Len(ds) |-> CHOOSE r \in sel : r.trade_date = ds[i]]

\* faulty variant: the prev_close condition dropped
intraday_log_any_day(r) ==
    IF r.price_open # NULL /\ r.price_close # NULL /\ r.price_open # 0
    THEN Ln(r.price_close, r.price_open)
    ELSE NaN

intraday_log(r) ==
    IF /\ r.price_open # NULL /\ r.price_close # NULL
       /\ r.price_open # 0 /\ r.prev_close # NULL
    THEN Ln(r.price_close, r.price_open)
    ELSE NaN

overnight_log(r) ==
    IF r.price_open # NULL /\ r.prev_close # NULL /\ r.prev_close # 0
    THEN Ln(r.price_open, r.prev_close)
    ELSE NaN

full_log(r) == Add(intraday_log(r), overnight_log(r))

\* dt.dayofweek: Monday is 0
dayofweek(d) == d % 7

\* faulty variant: the previous day is the stored row before the current one,
\* inside the requested range or not
weekend_mask_stored(df, i) ==
    /\ dayofweek(df[i].trade_date) = 0
    /\ \E p \in refp :
           /\ p.symbol_code = df[i].symbol_code
           /\ p.trade_date < df[i].trade_date
           /\ ~\E q \in refp : /\ q.symbol_code = df[i].symbol_code
                                /\ p.trade_date < q.trade_date
                                /\ q.trade_date < df[i].trade_date
           /\ dayofweek(p.trade_date) = 4

weekend_mask(df, i) ==
    /\ i > 1
    /\ dayofweek(df[i - 1].trade_date) = 4
    /\ dayofweek(df[i].trade_date) = 0

\* faulty variant: only the calendar day after counts as the next weekday
business_mask_adjacent(df, i) ==
    /\ i > 1
    /\ dayofweek(df[i - 1].trade_date) \in {0, 1, 2, 3}
    /\ df[i].trade_date = df[i - 1].trade_date + 1

\* faulty variant: the next weekday taken modulo the five-day week
business_mask_wrapping(df, i) ==
    /\ i > 1
    /\ dayofweek(df[i - 1].trade_date) \in {0, 1, 2, 3, 4}
    /\ dayofweek(df[i].trade_date) = (dayofweek(df[i - 1].trade_date) + 1) % 5

business_mask(df, i) ==
    /\ i > 1
    /\ dayofweek(df[i - 1].trade_date) \in {0, 1, 2, 3}
    /\ dayofweek(df[i].trade_date) = dayofweek(df[i - 1].trade_date) + 1

\* faulty variant: fillna(0), a NaN counted as the zero return ln(1 / 1)
fillna_zero(series) == [i \in DOMAIN series |-> IF series[i] = NaN THEN Ln(1, 1) ELSE series[i]]

dropna(series) == SelectSeq(series, LAMBDA x : x # NaN)

stats_from_log_series(series) ==
    LET s == dropna(series)
    IN  [n |-> Len(s), sample |-> s]

Column(df, col) ==
    [i \in DOMAIN df |->
        IF col = "full_log" THEN full_log(df[i])
        ELSE IF col = "intraday_log" THEN intraday_log(df[i])
        ELSE IF col = "overnight_log" THEN overnight_log(df[i])
        ELSE IF col = "overnight_weekend_log"
             THEN (IF weekend_mask(df, i) THEN overnight_log(df[i]) ELSE NaN)
        ELSE (IF business_mask(df, i) THEN overnight_log(df[i]) ELSE NaN)]

ReturnColumns(weekend_aware) ==
    {"full_log", "intraday_log", "overnight_log"}
        \cup IF weekend_aware THEN {"overnight_weekend_log", "overnight_business_log"}
             ELSE {}

\* returns_df and numeric_df of compute_reference_stats
compute_reference_stats(symbol, start_date, end_date, weekend_aware) ==
    LET df == read_sql_query(symbol, start_date, end_date)
    IN  [returns |-> [i \in DOMAIN df |->
                         [col \in ReturnColumns(weekend_aware) \cup {"trade_date"} |->
                             IF col = "trade_date" THEN <<df[i].trade_date>>
                             ELSE Column(df, col)[i]]],
         stats |-> [col \in ReturnColumns(weekend_aware) |->
                       stats_from_log_series(Column(df, col))]]

\* a price column read without a single value comes back as a column of
\* None objects, and np.log over the quotient may raise TypeError
MayRaiseTypeError(df) ==
    /\ df # <<>>
    /\ \/ \A i \in DOMAIN df : df[i].price_open = NULL
       \/ \A i \in DOMAIN df : df[i].price_close = NULL
       \/ \A i \in DOMAIN df : df[i].prev_close = NULL

\* where a run of the statistics script fails: nowhere, at the MIN/MAX query,
\* inside compute_reference_stats, inside plot_cumulative
StatFails == {"none", "range", "compute", "plot"}

\* faulty variant: the exception of plot_cumulative leaves main (exit code 1)
ExitAfterPlotRaising(plot_failed) == IF plot_failed THEN 1 ELSE 0

\* try: plot_cumulative(...) except Exception: logging.exception(...); return 0
ExitAfterPlot(plot_failed) == 0

MinDate(symbol) ==
    CHOOSE d \in {r.trade_date : r \in {x \in refp : x.symbol_code = symbol}} :
        \A r \in refp : r.symbol_code = symbol => d <= r.trade_date

MaxDate(symbol) ==
    CHOOSE d \in {r.trade_date : r \in {x \in refp : x.symbol_code = symbol}} :
        \A r \in refp : r.symbol_code = symbol => d >= r.trade_date

\* main of either script; raise says whether np.log raises where it may
StatsMain(op, weekend_aware, symbol, range, fail, raise) ==
    LET needs_query == range[1] = NULL \/ range[2] = NULL
        no_rows == ~\E r \in refp : r.symbol_code = symbol
        unresolved == needs_query /\ (fail = "range" \/ no_rows)
        effective_start == IF range[1] # NULL THEN range[1] ELSE MinDate(symbol)
        effective_end == IF range[2] # NULL THEN range[2] ELSE MaxDate(symbol)
        raised == ~unresolved /\ (fail = "compute" \/ raise)
        computed == ~unresolved /\ ~raised
        result == compute_reference_stats(symbol, effective_start, effective_end,
                                          weekend_aware)
    IN  /\ raise => /\ ~unresolved
                    /\ fail # "compute"
                    /\ MayRaiseTypeError(read_sql_query(symbol, effective_start,
                                                        effective_end))
        /\ last' = [op |-> op, symbol_code |-> symbol, dry_run |-> FALSE,
                    winners |-> {}, rows |-> <<>>, before |-> {},
                    ret |-> IF unresolved \/ raised THEN 2
                            ELSE ExitAfterPlot(fail = "plot"),
                    range |-> range, fail |-> fail,
                    effective |-> IF unresolved THEN <<>>
                                  ELSE <<effective_start, effective_end>>,
                    raised |-> raised, computed |-> computed,
                    returns |-> IF computed THEN result.returns ELSE <<>>,
                    stats |-> IF computed THEN result.stats ELSE <<>>]
        /\ UNCHANGED <<inbox, contracts, bars, liquid, refp>>

calc_overnight_stats_main(symbol, range, fail) ==
    \E raise \in BOOLEAN :
        StatsMain("calc_overnight_stats", FALSE, symbol, range, fail, raise)

\* the weekend-aware script does not plot
calc_overnight_stats_we_main(symbol, range, fail) ==
    \E raise \in BOOLEAN :
        StatsMain("calc_overnight_stats_we", TRUE, symbol, range, fail, raise)

----------------------------------------------------------------------------
\* Specifications

ContractsTable(l1, l2, l3) ==
    [cid \in ContractIds |->
        [symbol_code |-> SymbolOf(cid),
         last_trade_date |-> IF cid = 1 THEN l1 ELSE IF cid = 2 THEN l2 ELSE l3]]

EmptyStore ==
    /\ bars = {}
    /\ liquid = {}
    /\ refp = {}
    /\ last = NoCall

\* selector inputs: volumes, window times and expiry distances vary (contract 1
\* unset, expiring on day 0 or on day 101; contract 2 far-dated on day 0 and at
\* distance 100 on day 1)
Init ==
    /\ inbox \in {S \in SubsetsUpTo(SelLines, MaxLines) : KeyUnique(S)}
    /\ contracts \in {ContractsTable(l1, 101, 0) : l1 \in SelLastTradeDates}
    /\ EmptyStore

\* builder inputs: bar times vary; contract 1 expires on day 1 (rollover to 2)
InitRef ==
    /\ inbox \in {S \in SubsetsUpTo(RefLines, MaxRefLines) : KeyUnique(S)}
    /\ contracts = ContractsTable(1, 101, 0)
    /\ EmptyStore

Next ==
    \/ \E cid \in ContractIds : LoadBarsForFile(cid)
    \/ \E s \in Symbols, dry \in BOOLEAN : compute_liquid_contracts(s, dry)
    \/ \E s \in Symbols, dry \in BOOLEAN : process_symbol(s, dry)

Spec == Init /\ [][Next]_vars

SpecRef == InitRef /\ [][Next]_vars

\* command-line inputs: both symbols with bars, one contract file per load
InitCli ==
    /\ inbox \in {S \in SubsetsUpTo(CliLines, MaxCliLines) : KeyUnique(S)}
    /\ contracts = ContractsTable(1, 101, 0)
    /\ EmptyStore

NextCli ==
    \/ \E cid \in ContractIds : LoadBarsForFile(cid)
    \/ \E s \in Symbols, dry \in BOOLEAN, fail \in FailModes :
           comp_liquid_contract_main(s, dry, fail)
    \/ \E s \in Symbols, dry \in BOOLEAN, fail \in FailModes :
           load_reference_prices_main(s, dry, fail)
    \/ \E dry \in BOOLEAN, fails \in BatchFails :
           comp_liquid_contract_all_main(dry, fails)
    \/ \E args \in SymbolArgs, dry \in BOOLEAN, fails \in BatchFails :
           load_reference_prices_all_main(args, dry, fails)

SpecCli == InitCli /\ [][NextCli]_vars

\* a store with second-precision timestamps, the bars already loaded
InitSec ==
    /\ inbox = {}
    /\ contracts = ContractsTable(1, 101, 0)
    /\ bars \in {S \cup {Line(1, 0, <<10, 0>>, 1500)} : S \in SubsetsUpTo(SecBars, MaxSecBars)}
    /\ liquid = {}
    /\ refp = {}
    /\ last = NoCall

NextSec ==
    \/ \E s \in Symbols, dry \in BOOLEAN : compute_liquid_contracts(s, dry)
    \/ \E s \in Symbols, dry \in BOOLEAN : process_symbol(s, dry)

SpecSec == InitSec /\ [][NextSec]_vars

\* a store whose reference prices are built: one row per trade_date
InitStats ==
    /\ inbox = {}
    /\ contracts = ContractsTable(1, 101, 0)
    /\ bars = {}
    /\ liquid = {}
    /\ refp \in {S \in SubsetsUpTo(StatRows, MaxStatRows) :
                    \A a, b \in S : a.trade_date = b.trade_date => a = b}
    /\ last = NoCall

NextStats ==
    \/ \E s \in Symbols, range \in StatRanges, fail \in StatFails :
           calc_overnight_stats_main(s, range, fail)
    \/ \E s \in Symbols, range \in StatRanges, fail \in StatFails \ {"plot"} :
           calc_overnight_stats_we_main(s, range, fail)

SpecStats == InitStats /\ [][NextStats]_vars

\* repeated loads of contract files whose contents change between the loads
InitLoad ==
    /\ inbox = {}
    /\ contracts = ContractsTable(101, 101, 0)
    /\ EmptyStore

NextLoad ==
    \E cid \in {1, 2} : \E lines \in FileContents(cid) : load_bars_for_file(cid, lines)

SpecLoad == InitLoad /\ [][NextLoad]_vars

\* parse_contract_filename called on the name of a file of the data folder
InitParse ==
    /\ inbox \in {{filename} : filename \in FileNames}
    /\ contracts = ContractsTable(101, 101, 0)
    /\ EmptyStore

NextParse == \E filename \in inbox : ParseContractFilename(filename)

SpecParse == InitParse /\ [][NextParse]_vars

\* selector inputs at the ends of the open window: every bar has the minimum
\* volume and both contracts of ES are inside the expiry window on both days
InitWin ==
    /\ inbox \in {S \in SubsetsUpTo(WinLines, MaxWinLines) : KeyUnique(S)}
    /\ contracts = ContractsTable(100, 100, 0)
    /\ EmptyStore

SpecWin == InitWin /\ [][Next]_vars

\* selector and builder runs between loads of files whose contents change
InitRerun ==
    /\ inbox = {}
    /\ contracts = ContractsTable(100, 100, 0)
    /\ EmptyStore

\* files whose lines all carry a volume
RerunContents(cid) == {S \in FileContents(cid) : \A l \in S : l.volume # NULL}

NextRerun ==
    \/ \E cid \in {1, 2} : \E lines \in RerunContents(cid) : load_bars_for_file(cid, lines)
    \/ \E dry \in BOOLEAN : compute_liquid_contracts("ES", dry)
    \/ \E dry \in BOOLEAN : process_symbol("ES", dry)

SpecRerun == InitRerun /\ [][NextRerun]_vars

\* the two stages run for both symbols on one database
SpecFrame == InitCli /\ [][Next]_vars

\* the weekend-aware statistics over stored rows with weeks skipped
InitWeek ==
    /\ inbox = {}
    /\ contracts = ContractsTable(1, 101, 0)
    /\ bars = {}
    /\ liquid = {}
    /\ refp \in {S \in SubsetsUpTo(WeekRows, MaxWeekRows) :
                    \A a, b \in S : a.trade_date = b.trade_date => a = b}
    /\ last = NoCall

NextWeek ==
    \E range \in WeekRanges, fail \in {"none", "compute"} :
        calc_overnight_stats_we_main("ES", range, fail)

SpecWeek == InitWeek /\ [][NextWeek]_vars

----------------------------------------------------------------------------
\* calc_overnight_stats_all.py

\* stored reference prices of both symbols, up to MaxCandRows rows a symbol
MaxCandRows == 3
CandRows ==
    {[symbol_code |-> s, trade_date |-> d, price_open |-> 100 + d,
      price_close |-> 110 + d, prev_close |-> 90 + d] :
        s \in Symbols, d \in 1..MaxCandRows}

\* COUNT(*) ... GROUP BY symbol_code
Cnt(symbol_code) == Cardinality({r \in refp : r.symbol_code = symbol_code})

\* SELECT symbol_code, COUNT(*) AS cnt FROM daily_reference_prices
\*   GROUP BY symbol_code HAVING cnt >= ? ORDER BY symbol_code
fetch_candidates(min_rows) ==
    LET kept == SelectSeq(SymbolOrder, LAMBDA s : Cnt(s) > 0 /\ Cnt(s) >= min_rows)
    IN  [i \in 1..Len(kept) |-> <<kept[i], Cnt(kept[i])>>]

FetchCandidates(min_rows) ==
    /\ last' = [op |-> "fetch_candidates", symbol_code |-> "", dry_run |-> FALSE,
                winners |-> {}, rows |-> <<>>, ret |-> fetch_candidates(min_rows),
                before |-> {}, min_rows |-> min_rows]
    /\ UNCHANGED <<inbox, contracts, bars, liquid, refp>>

InitCand ==
    /\ inbox = {}
    /\ contracts = ContractsTable(1, 101, 0)
    /\ bars = {}
    /\ liquid = {}
    /\ refp \in SUBSET CandRows
    /\ last = NoCall

NextCand == \E min_rows \in 0..(MaxCandRows + 1) : FetchCandidates(min_rows)

SpecCand == InitCand /\ [][NextCand]_vars

----------------------------------------------------------------------------
\* Properties of the liquidity selector, stated on the tables themselves

Computed == last.op = "compute_liquid_contracts"

Mins(b) == b.hh * 60 + b.mm

BarsOn(c, d) == {b \in bars : b.contract_id = c /\ b.date = d}

ContractsOf(symbol_code) ==
    {c \in DOMAIN contracts : contracts[c].symbol_code = symbol_code}

\* summed volume of a set of bars, a missing volume counted as 0
RECURSIVE VolumeTotal(_)
VolumeTotal(S) ==
    IF S = {} THEN 0
    ELSE LET b == CHOOSE x \in S : TRUE
         IN  (IF b.volume = NULL THEN 0 ELSE b.volume) + VolumeTotal(S \ {b})

DayVolume(c, d) == VolumeTotal(BarsOn(c, d))

DaysToExpiry(c, d) == contracts[c].last_trade_date - d

PassesExpiry(c, d) ==
    /\ contracts[c].last_trade_date # NULL
    /\ DaysToExpiry(c, d) >= 0
    /\ DaysToExpiry(c, d) <= 100

PassesVolume(c, d) == BarsOn(c, d) # {} /\ DayVolume(c, d) >= 1500

\* a bar of any contract of the symbol between 10:00 and 10:30 on date d
HasWindowBar(symbol_code, d) ==
    \E c \in ContractsOf(symbol_code) : \E b \in BarsOn(c, d) :
        Mins(b) >= 600 /\ Mins(b) <= 630

WinnerDates == {w[1] : w \in last.winners}

\* C1: the winner of a date has the maximum summed volume among the contracts
\* of the symbol that pass the expiry and volume filters on that date, and among
\* those with the maximum it has the lowest contract_id
C1_WinnerIsMaxVolume ==
    Computed =>
        \A w \in last.winners : \A c \in ContractsOf(last.symbol_code) :
            (PassesExpiry(c, w[1]) /\ PassesVolume(c, w[1])) =>
                /\ DayVolume(w[2], w[1]) >= DayVolume(c, w[1])
                /\ DayVolume(w[2], w[1]) = DayVolume(c, w[1]) => w[2] <= c

\* a run with a two-way tie at the maximum on some date
C1_Witness ==
    /\ Computed
    /\ \E w \in last.winners : \E c \in ContractsOf(last.symbol_code) :
           /\ c # w[2]
           /\ PassesExpiry(c, w[1]) /\ PassesVolume(c, w[1])
           /\ DayVolume(c, w[1]) = DayVolume(w[2], w[1])

\* C2: a date on which no contract of the symbol has a bar between 10:00 and
\* 10:30 is never a winner's date
C2_NoWindowNoWinner ==
    Computed =>
        \A w \in last.winners : HasWindowBar(last.symbol_code, w[1])

\* a run over a date with qualifying volume outside the window only
C2_Witness ==
    /\ Computed
    /\ \E c \in ContractsOf(last.symbol_code) : \E b \in bars :
           /\ b.contract_id = c
           /\ PassesExpiry(c, b.date) /\ PassesVolume(c, b.date)
           /\ ~HasWindowBar(last.symbol_code, b.date)
           /\ b.date \notin WinnerDates

\* C3: no winner is a contract whose last_trade_date is NULL
C3_UnsetExpiryNeverWins ==
    Computed =>
        \A w \in last.winners : contracts[w[2]].last_trade_date # NULL

\* a run in which a contract without last_trade_date has the highest volume of
\* an admitted date, and another contract wins that date
C3_Witness ==
    /\ Computed
    /\ \E w \in last.winners : \E c \in ContractsOf(last.symbol_code) :
           /\ contracts[c].last_trade_date = NULL
           /\ PassesVolume(c, w[1])
           /\ DayVolume(c, w[1]) > DayVolume(w[2], w[1])

\* C4: a winner expires between 0 and MAX_DAYS_TO_LAST_DAY days after its date,
\* and both ends are eligible: a contract at distance 0..100 that meets the
\* volume filter on an admitted date gives that date a winner
C4_ExpiryWindowInclusive ==
    Computed =>
        /\ \A w \in last.winners : PassesExpiry(w[2], w[1])
        /\ \A c \in ContractsOf(last.symbol_code) : \A b \in bars :
              ( /\ b.contract_id = c
                /\ PassesExpiry(c, b.date) /\ PassesVolume(c, b.date)
                /\ b.date \in allowed_dates(last.symbol_code) )
              => b.date \in WinnerDates

\* one run with a winner expiring on its date and a winner expiring exactly 100
\* days later
C4_Witness ==
    /\ Computed
    /\ \E w \in last.winners : DaysToExpiry(w[2], w[1]) = 0
    /\ \E w \in last.winners : DaysToExpiry(w[2], w[1]) = 100

\* C5: a winner's bars of the date, inside and outside the window, with missing
\* volumes counted as 0, sum to MIN_DAILY_VOLUME or more, and a contract whose
\* sum reaches the minimum (equality included) is a candidate
C5_MinimumVolume ==
    Computed =>
        /\ \A w \in last.winners : PassesVolume(w[2], w[1])
        /\ \A c \in ContractsOf(last.symbol_code) : \A b \in bars :
              ( /\ b.contract_id = c
                /\ PassesExpiry(c, b.date)
                /\ DayVolume(c, b.date) >= 1500
                /\ b.date \in allowed_dates(last.symbol_code) )
              => \E w \in last.winners :
                    w[1] = b.date /\ DayVolume(w[2], w[1]) >= DayVolume(c, b.date)

\* a winner whose sum is exactly the minimum, made of a bar with a missing
\* volume and a bar outside the window
C5_Witness ==
    /\ Computed
    /\ \E w \in last.winners :
           /\ DayVolume(w[2], w[1]) = 1500
           /\ \E b \in BarsOn(w[2], w[1]) : b.volume = NULL
           /\ \E b \in BarsOn(w[2], w[1]) : Mins(b) > 630 /\ b.volume # NULL

\* C6: the liquid-contract table holds at most one row per (symbol_code,
\* trade_date), and after a non-dry run every winner of the run is the row of
\* its date
C6_OneRowPerKeyOverwritten ==
    /\ \A r1, r2 \in liquid :
           (r1.symbol_code = r2.symbol_code /\ r1.trade_date = r2.trade_date)
               => r1 = r2
    /\ (Computed /\ ~last.dry_run) =>
           \A w \in last.winners :
               [symbol_code |-> last.symbol_code, trade_date |-> w[1],
                contract_id |-> w[2]] \in liquid

\* a non-dry run that found another contract stored for a date it has a winner for
C6_Witness ==
    /\ Computed /\ ~last.dry_run
    /\ \E w \in last.winners : \E r \in last.before :
           /\ r.symbol_code = last.symbol_code
           /\ r.trade_date = w[1]
           /\ r.contract_id # w[2]

----------------------------------------------------------------------------
\* Properties of the reference price builder

Processed == last.op = "process_symbol"

RowIndexes == 1..Len(last.rows)

\* the liquid contract stored for the symbol of the last call on date d
LiquidContractOn(d) ==
    LET r == CHOOSE x \in liquid :
                 x.symbol_code = last.symbol_code /\ x.trade_date = d
    IN  r.contract_id

\* the LiquidDay dates of the symbol of the last call
LiquidDates == {r.trade_date : r \in {x \in liquid : x.symbol_code = last.symbol_code}}

\* the bars of contract c on date d that start before minute m of the day
BarsBefore(c, d, m) == {b \in BarsOn(c, d) : Mins(b) < m}

\* the latest of a set of bars of one contract and date (none when S is empty)
Latest(S) == {b \in S : \A o \in S : Mins(o) <= Mins(b)}

\* the close of the latest bar of c on d starting before 16:00, or NULL
CloseBefore1600(c, d) ==
    IF BarsBefore(c, d, 960) = {} THEN {NULL}
    ELSE {b.close : b \in Latest(BarsBefore(c, d, 960))}

\* the closes of the bars starting at 16:00 or later
LateCloses == {b.close : b \in {x \in bars : Mins(x) >= 960}}

\* the values a strictly-before-16:00 lookup of some contract and date can give
CloseBefore1600Values ==
    {NULL} \cup {b.close : b \in {x \in bars :
                     /\ Mins(x) < 960
                     /\ x \in Latest(BarsBefore(x.contract_id, x.date, 960))}}

\* C7: price_close of a row is the close of the latest bar of the day's
\* contract starting strictly before 16:00 on the row's date (NULL when there
\* is none), prev_close is NULL or the close of the latest bar before 16:00 of
\* its contract and date, and neither is the close of a bar starting at 16:00
\* or later
C7_CloseExcludesCloseTimeBar ==
    Processed =>
        \A i \in RowIndexes :
            LET r == last.rows[i]
            IN  /\ r.price_close \in CloseBefore1600(LiquidContractOn(r.trade_date),
                                                     r.trade_date)
                /\ r.prev_close \in CloseBefore1600Values
                /\ r.price_close \notin LateCloses
                /\ r.prev_close \notin LateCloses

\* a row of a day whose contract has a bar starting at 16:00 and an earlier one,
\* with a prev_close looked up on a date that has a 16:00 bar too
C7_Witness ==
    /\ Processed
    /\ \E i \in RowIndexes :
           LET r == last.rows[i]
               c == LiquidContractOn(r.trade_date)
           IN  /\ \E b \in BarsOn(c, r.trade_date) : Mins(b) = 960
               /\ r.price_close # NULL
    /\ \E i \in RowIndexes :
           /\ i > 1
           /\ last.rows[i].prev_close # NULL
           /\ \E b \in BarsOn(LiquidContractOn(last.rows[i].trade_date),
                              last.rows[i - 1].trade_date) : Mins(b) = 960

\* the bars of c on d starting exactly at 09:30
OpenBars(c, d) == {b \in BarsOn(c, d) : Mins(b) = 570}

\* C8: price_open is the open of the day's contract's 09:30 bar when there is
\* one, else the close of its latest bar starting before 09:30, else NULL
C8_OpenExactThenFallback ==
    Processed =>
        \A i \in RowIndexes :
            LET r == last.rows[i]
                c == LiquidContractOn(r.trade_date)
                before == BarsBefore(c, r.trade_date, 570)
            IN  r.price_open \in
                    IF OpenBars(c, r.trade_date) # {}
                    THEN {b.open : b \in OpenBars(c, r.trade_date)}
                    ELSE IF before # {} THEN {b.close : b \in Latest(before)}
                    ELSE {NULL}

\* a row that fell back to the bar before 09:30 although later bars exist
C8_Witness ==
    /\ Processed
    /\ \E i \in RowIndexes :
           LET r == last.rows[i]
               c == LiquidContractOn(r.trade_date)
           IN  /\ OpenBars(c, r.trade_date) = {}
               /\ BarsBefore(c, r.trade_date, 570) # {}
               /\ \E b \in BarsOn(c, r.trade_date) : Mins(b) > 570
               /\ r.price_open # NULL

\* the entry before date d in the symbol's LiquidDay dates
IsPredecessor(p, d) ==
    /\ p \in LiquidDates /\ p < d
    /\ ~\E q \in LiquidDates : p < q /\ q < d

\* C9: prev_close of an entry after the first is the strictly-before-16:00
\* close of the entry's own contract on the date of the entry before it in the
\* symbol's LiquidDay dates
C9_PrevCloseUsesCurrentContract ==
    Processed =>
        \A i \in RowIndexes : \A p \in LiquidDates :
            IsPredecessor(p, last.rows[i].trade_date) =>
                last.rows[i].prev_close \in
                    CloseBefore1600(LiquidContractOn(last.rows[i].trade_date), p)

\* a rollover across a calendar gap: the entry's contract differs from the one
\* of the entry before it, which lies more than one day back, and the two
\* contracts close that earlier date differently
C9_Witness ==
    /\ Processed
    /\ \E i \in RowIndexes : \E p \in LiquidDates :
           LET r == last.rows[i]
           IN  /\ IsPredecessor(p, r.trade_date)
               /\ r.trade_date - p > 1
               /\ LiquidContractOn(p) # LiquidContractOn(r.trade_date)
               /\ r.prev_close # NULL
               /\ r.prev_close \notin CloseBefore1600(LiquidContractOn(p), p)

\* C10: the row of the earliest LiquidDay date of the symbol has prev_close NULL
C10_FirstPrevCloseUndefined ==
    Processed =>
        \A i \in RowIndexes :
            (\A d \in LiquidDates : last.rows[i].trade_date <= d)
                => last.rows[i].prev_close = NULL

\* the first entry's contract has a bar before 16:00 on the calendar day before
C10_Witness ==
    /\ Processed
    /\ \E i \in RowIndexes :
           LET r == last.rows[i]
           IN  /\ \A d \in LiquidDates : r.trade_date <= d
               /\ BarsBefore(LiquidContractOn(r.trade_date), r.trade_date - 1, 960) # {}

----------------------------------------------------------------------------
\* Persisted output of the reference price builder

\* the rows stored in daily_reference_prices for the symbol of the last call
StoredRows == {r \in refp : r.symbol_code = last.symbol_code}

\* what price_open of contract c on date d resolves to
OpenResolved(c, d) ==
    IF OpenBars(c, d) # {} THEN {b.open : b \in OpenBars(c, d)}
    ELSE IF BarsBefore(c, d, 570) # {}
         THEN {b.close : b \in Latest(BarsBefore(c, d, 570))}
         ELSE {NULL}

\* what prev_close of the entry of date d resolves to
PrevResolved(d) ==
    IF \E p \in LiquidDates : IsPredecessor(p, d)
    THEN CloseBefore1600(LiquidContractOn(d),
                         CHOOSE p \in LiquidDates : IsPredecessor(p, d))
    ELSE {NULL}

Unresolved(r) ==
    Cardinality({f \in {"o", "c", "p"} :
        (IF f = "o" THEN r.price_open
         ELSE IF f = "c" THEN r.price_close ELSE r.prev_close) = NULL})

\* C11: after a non-dry run of process_symbol the table holds exactly one row
\* for every LiquidDay date of the symbol, it is the row the run computed, and
\* each of its three values is NULL when unresolved (never 0) and the
\* resolved value otherwise
C11_OneRowPerLiquidDay ==
    (Processed /\ ~last.dry_run) =>
        /\ Len(last.rows) = Cardinality(LiquidDates)
        /\ \A d \in LiquidDates :
               /\ Cardinality({r \in StoredRows : r.trade_date = d}) = 1
               /\ \E i \in RowIndexes :
                      /\ last.rows[i].trade_date = d
                      /\ last.rows[i] \in StoredRows
        /\ \A r \in StoredRows :
               r.trade_date \in LiquidDates =>
                   /\ r.price_open \in OpenResolved(LiquidContractOn(r.trade_date),
                                                    r.trade_date)
                   /\ r.price_close \in CloseBefore1600(LiquidContractOn(r.trade_date),
                                                        r.trade_date)
                   /\ r.prev_close \in PrevResolved(r.trade_date)
                   /\ r.price_open # 0 /\ r.price_close # 0 /\ r.prev_close # 0

\* a non-dry run that stored a row with all three values unresolved and a row
\* with exactly one unresolved
C11_Witness ==
    /\ Processed /\ ~last.dry_run
    /\ \E r \in StoredRows : r.trade_date \in LiquidDates /\ Unresolved(r) = 3
    /\ \E r \in StoredRows : r.trade_date \in LiquidDates /\ Unresolved(r) = 1

\* a non-dry run of a stage directly after a non-dry run of the same stage for
\* the same symbol: nothing ran in between, so its inputs are those of the first
RunAgain ==
    /\ last.op \in {"compute_liquid_contracts", "process_symbol"}
    /\ ~last.dry_run
    /\ last'.op = last.op
    /\ last'.symbol_code = last.symbol_code
    /\ ~last'.dry_run

\* C12: the second of two consecutive runs of a stage on unchanged inputs
\* leaves liquid_contract_daily and daily_reference_prices as the first left
\* them
C12_SecondRunChangesNothing ==
    [][RunAgain => (liquid' = liquid /\ refp' = refp)]_vars

\* a non-dry run of the builder that computed rows with a resolved prev_close
\* and found them all stored already
C12_Witness ==
    /\ Processed /\ ~last.dry_run
    /\ \E i \in RowIndexes : last.rows[i].prev_close # NULL
    /\ \A i \in RowIndexes : last.rows[i] \in last.before
    /\ refp = last.before

----------------------------------------------------------------------------
\* Properties of the command-line runs

Stored == <<inbox, contracts, bars, liquid, refp>>

ReferenceCli == {"load_reference_prices", "load_reference_prices_all"}

\* C13: a dry run changes no table, whether it finds rows, finds none or the
\* database raises, and the reference-price scripts leave no transaction open
C13_DryRunChangesNothing ==
    [][last'.dry_run =>
          /\ Stored' = Stored
          /\ last'.op \in ReferenceCli => ~last'.in_tx]_vars

\* a dry run of load_reference_prices.main for a symbol with LiquidDay rows
\* that ended by the exception leaving main
C13_Witness ==
    /\ last.op = "load_reference_prices" /\ last.dry_run
    /\ last.raised
    /\ LiquidDates # {}
    /\ ~last.in_tx

BatchRun == last.op \in {"comp_liquid_contract_all", "load_reference_prices_all"}

\* the rows a non-dry run of the batch computes for symbol s are stored
RowsStored(s) ==
    IF last.op = "comp_liquid_contract_all"
    THEN \A w \in winners(s) :
             [symbol_code |-> s, trade_date |-> w[1], contract_id |-> w[2]] \in liquid
    ELSE \A rows \in BuildRows(s, fetch_trade_dates(s), 1) :
             \A i \in 1..Len(rows) : rows[i] \in refp

\* the call for symbol s raised in the last batch
SymbolRaised(s) ==
    \/ last.fails[s] = "read"
    \/ /\ last.fails[s] \in {"write", "commit"} /\ ~last.dry_run
       /\ IF last.op = "comp_liquid_contract_all" THEN winners(s) # {}
          ELSE fetch_trade_dates(s) # <<>>

\* C14: a batch does not raise and calls every symbol of its list, also after
\* a symbol that raised, and the rows of the symbols that did not raise are
\* stored when it ends
C14_BatchSurvivesSymbolError ==
    BatchRun =>
        /\ ~last.raised
        /\ last.processed = last.symbols
        /\ ~last.dry_run =>
               \A i \in 1..Len(last.symbols) :
                   ~SymbolRaised(last.symbols[i]) => RowsStored(last.symbols[i])

\* a non-dry reference-price batch whose first symbol raised at its commit and
\* whose second symbol stored rows that were not there before
C14_Witness ==
    /\ last.op = "load_reference_prices_all" /\ ~last.dry_run
    /\ Len(last.symbols) = 2
    /\ last.fails[last.symbols[1]] = "commit" /\ SymbolRaised(last.symbols[1])
    /\ fetch_trade_dates(last.symbols[2]) # <<>>
    /\ RowsStored(last.symbols[2])
    /\ \E r \in refp \ last.before.refp : r.symbol_code = last.symbols[2]

\* a run of a single-symbol script that found nothing to write while the
\* database answered its queries
NoDataRun ==
    /\ last'.op \in {"comp_liquid_contract", "load_reference_prices"}
    /\ last'.fails[last'.symbol_code] # "read"
    /\ IF last'.op = "comp_liquid_contract" THEN winners(last'.symbol_code) = {}
       ELSE fetch_trade_dates(last'.symbol_code) = <<>>

\* C15: a run without winners, and a run for a symbol without LiquidDay rows,
\* returns without raising and changes no table; process_symbol returns 0
C15_NoDataIsBenign ==
    [][NoDataRun =>
          /\ ~last'.raised
          /\ Stored' = Stored
          /\ last'.op = "load_reference_prices" => last'.ret = 0]_vars

\* a non-dry run of the builder for a symbol that has bars and no LiquidDay row
C15_Witness ==
    /\ last.op = "load_reference_prices" /\ ~last.dry_run
    /\ LiquidDates = {}
    /\ SymbolBars(last.symbol_code) # {}
    /\ last.ret = 0 /\ ~last.raised

----------------------------------------------------------------------------
\* Time matching on timestamps with seconds

\* C16: whatever the seconds of the timestamps, price_open is the open of a
\* bar of the day's contract whose hour:minute is 09:30 when there is one, and
\* price_close is the close of a bar whose hour:minute is the latest before
\* 16:00, never of a bar at 16:00:00, 16:00:30 or later
C16_SecondsIgnored ==
    Processed =>
        \A i \in RowIndexes :
            LET r == last.rows[i]
                c == LiquidContractOn(r.trade_date)
            IN  /\ OpenBars(c, r.trade_date) # {} =>
                       r.price_open \in {b.open : b \in OpenBars(c, r.trade_date)}
                /\ r.price_close \in CloseBefore1600(c, r.trade_date)
                /\ r.price_close \notin LateCloses

\* a row whose price_open is the open of the 09:30:30 bar although a 09:30:00
\* bar exists, of a day with a bar at 16:00:30
C16_Witness ==
    /\ Processed
    /\ \E i \in RowIndexes :
           LET r == last.rows[i]
               c == LiquidContractOn(r.trade_date)
           IN  /\ \E b \in OpenBars(c, r.trade_date) : b.ss = 30 /\ r.price_open = b.open
               /\ \E b \in OpenBars(c, r.trade_date) : b.ss = 0
               /\ \E b \in BarsOn(c, r.trade_date) : Mins(b) = 960 /\ b.ss = 30
               /\ r.price_close # NULL

----------------------------------------------------------------------------
\* Properties of the statistics scripts

StatsRun == last.op \in {"calc_overnight_stats", "calc_overnight_stats_we"}

StatsComputed == StatsRun /\ last.computed

ReturnIndexes == 1..Len(last.returns)

DateOf(i) == last.returns[i]["trade_date"][1]

\* the stored row a row of returns was computed from
SourceRow(i) ==
    CHOOSE r \in refp : r.symbol_code = last.symbol_code /\ r.trade_date = DateOf(i)

\* weekday names of a day number, day 0 being a Monday
IsMonday(d) == d % 7 = 0
IsFriday(d) == d % 7 = 4

WeekendStep(i) == i > 1 /\ IsFriday(DateOf(i - 1)) /\ IsMonday(DateOf(i))

\* Mon->Tue, Tue->Wed, Wed->Thu, Thu->Fri
BusinessStep(i) ==
    /\ i > 1
    /\ \E k \in 0..3 : DateOf(i - 1) % 7 = k /\ DateOf(i) % 7 = k + 1

C18_IntradayNeedsPrevClose ==
    StatsComputed =>
        \A i \in ReturnIndexes :
            LET r == SourceRow(i)
                v == last.returns[i]["intraday_log"]
            IN  /\ v # NaN =>
                       /\ r.price_open # NULL /\ r.price_close # NULL
                       /\ r.prev_close # NULL /\ r.price_open # 0
                /\ r.prev_close = NULL => v = NaN

\* the first row of a run has open and close and no prev_close, and a later
\* row has a defined intraday return
C18_Witness ==
    /\ StatsComputed
    /\ Len(last.returns) > 1
    /\ SourceRow(1).price_open \notin {NULL, 0}
    /\ SourceRow(1).price_close # NULL
    /\ SourceRow(1).prev_close = NULL
    /\ last.returns[1]["intraday_log"] = NaN
    /\ \E i \in ReturnIndexes : last.returns[i]["intraday_log"] # NaN

\* the defined values of a column of returns, in row order
RECURSIVE DefinedValues(_, _)
DefinedValues(col, i) ==
    IF i > Len(last.returns) THEN <<>>
    ELSE (IF last.returns[i][col] = NaN THEN <<>> ELSE <<last.returns[i][col]>>)
             \o DefinedValues(col, i + 1)

\* C19: the overnight return is undefined when price_open or prev_close is
\* missing or prev_close is 0, the full return is undefined when the intraday
\* or the overnight one is, and the statistics of a series are taken over its
\* defined returns only
C19_MissingNeverZero ==
    StatsComputed =>
        /\ \A i \in ReturnIndexes :
               LET r == SourceRow(i)
                   row == last.returns[i]
               IN  /\ (r.price_open = NULL \/ r.prev_close = NULL \/ r.prev_close = 0)
                          => row["overnight_log"] = NaN
                   /\ (row["intraday_log"] = NaN \/ row["overnight_log"] = NaN)
                          => row["full_log"] = NaN
        /\ \A col \in DOMAIN last.stats :
               /\ last.stats[col].sample = DefinedValues(col, 1)
               /\ last.stats[col].n = Len(DefinedValues(col, 1))

\* a run with an overnight return undefined for want of price_open and one
\* for a zero prev_close, and a defined one
C19_Witness ==
    /\ StatsComputed
    /\ \E i \in ReturnIndexes : SourceRow(i).price_open = NULL
    /\ \E i \in ReturnIndexes : SourceRow(i).prev_close = 0
    /\ last.stats["overnight_log"].n = 1
    /\ last.stats["full_log"].n = 1

\* C20: the exit code is 0 when the statistics are computed, 2 when the date
\* range is needed and the symbol has no row or the query for it fails, 2 when
\* compute_reference_stats raises, and a failure of the plot alone leaves it 0
C20_ExitCodes ==
    StatsRun =>
        LET needs_range == last.range[1] = NULL \/ last.range[2] = NULL
            no_rows == ~\E r \in refp : r.symbol_code = last.symbol_code
            unresolved == needs_range /\ (no_rows \/ last.fail = "range")
        IN  /\ last.ret \in {0, 2}
            /\ last.computed <=> last.ret = 0
            /\ unresolved => last.ret = 2
            /\ last.raised => last.ret = 2
            /\ (~unresolved /\ last.fail = "compute") => last.raised
            /\ (~unresolved /\ ~last.raised) => last.ret = 0

\* a run of calc_overnight_stats whose plot failed after statistics over
\* defined returns were printed
C20_Witness ==
    /\ last.op = "calc_overnight_stats"
    /\ last.fail = "plot"
    /\ last.computed /\ last.stats["full_log"].n > 0
    /\ last.ret = 0

----------------------------------------------------------------------------
\* Properties of the bar loader

\* C21: a bar is immutable once written: no load changes the values of a bar
\* that exists, and the bars table holds at most one bar per (contract_id,
\* timestamp)
C21_BarsImmutableAndUnique ==
    [][/\ \A b \in bars : b \in bars'
       /\ KeyUnique(bars')]_vars

\* the name without its extension, and whether it ends with a month-code letter
\* followed by two decimal digits
NameWithoutExtension(filename) == stem(filename)
EndsWithMonthAndYear(st) ==
    /\ Len(st) >= 3
    /\ st[Len(st) - 2] \in MONTH_CODES
    /\ st[Len(st) - 1] \in DecimalDigits
    /\ st[Len(st)] \in DecimalDigits

\* C22: for every filename parse_contract_filename returns (symbol_code,
\* month_code, year) when the name without extension ends with a month-code
\* letter followed by two digits (symbol_code the characters before those
\* three, year = 2000 + the two digits), and None for every other filename
C22_ParseContractFilename ==
    last.op = "parse_contract_filename" =>
        LET st == NameWithoutExtension(last.filename)
            n == Len(st)
        IN  IF EndsWithMonthAndYear(st)
            THEN last.ret = Parsed(SubSeq(st, 1, n - 3), st[n - 2],
                                   2000 + DigitValue(st[n - 1]) * 10 + DigitValue(st[n]))
            ELSE last.ret = None

----------------------------------------------------------------------------
\* Further properties of the liquidity selector

\* a contract of the symbol passes the expiry and volume filters on date d
HasCandidate(symbol_code, d) ==
    \E c \in ContractsOf(symbol_code) : PassesExpiry(c, d) /\ PassesVolume(c, d)

SymbolDates(symbol_code) ==
    {b.date : b \in {x \in bars : x.contract_id \in ContractsOf(symbol_code)}}

\* C23: a date is admitted by the open-window filter exactly when some bar of
\* some contract of the symbol starts at a time t with REQUIRED_OPEN_START <= t
\* <= REQUIRED_OPEN_END, both ends included (10:00 and 10:30): a date with a
\* contract passing the other filters has a winner exactly when it has such a bar
C23_OpenWindowInclusive ==
    Computed =>
        \A d \in SymbolDates(last.symbol_code) :
            HasCandidate(last.symbol_code, d) =>
                (d \in WinnerDates <=> HasWindowBar(last.symbol_code, d))

----------------------------------------------------------------------------
\* Properties of the batch statistics

Fetched == last.op = "fetch_candidates"

\* "ES" sorts before "NQ"
Alphabetical(s, t) == s = "ES" /\ t = "NQ"

RowCount(symbol_code) == Cardinality({r \in refp : r.symbol_code = symbol_code})

\* C24: fetch_candidates returns exactly the symbols of daily_reference_prices
\* having more than min_rows rows (a symbol with exactly min_rows rows is not
\* returned), each with its row count, in ascending symbol_code order
C24_CandidatesMoreThanMinRows ==
    Fetched =>
        /\ {c[1] : c \in {last.ret[i] : i \in 1..Len(last.ret)}}
               = {s \in Symbols : RowCount(s) > 0 /\ RowCount(s) > last.min_rows}
        /\ \A i \in 1..Len(last.ret) : last.ret[i][2] = RowCount(last.ret[i][1])
        /\ \A i, j \in 1..Len(last.ret) :
               i < j => Alphabetical(last.ret[i][1], last.ret[j][1])

----------------------------------------------------------------------------
\* Properties of recomputation

LiquidKeys(table) == {<<r.symbol_code, r.trade_date>> : r \in table}

RowDates(rows) == {rows[i].trade_date : i \in 1..Len(rows)}

\* C25: no Liquidity Selector run deletes: the (symbol_code, trade_date) keys of
\* the liquid-contract table only grow, a row whose date has no winner in a run
\* stays as it is, and the Reference Price Builder computes a row for the date
\* of every stored row of its symbol
C25_RecomputationNeverDeletes ==
    [][/\ LiquidKeys(liquid) \subseteq LiquidKeys(liquid')
       /\ \A r \in liquid :
              ( /\ last'.op = "compute_liquid_contracts"
                /\ ~\E w \in last'.winners :
                       last'.symbol_code = r.symbol_code /\ w[1] = r.trade_date )
              => r \in liquid'
       /\ last'.op = "process_symbol" =>
              \A r \in liquid' :
                  r.symbol_code = last'.symbol_code
                      => r.trade_date \in RowDates(last'.rows)]_vars

\* a non-dry run that wrote a winner and found a row stored for another date of
\* the symbol, which has no winner any more and is still stored
C25_Witness ==
    /\ Computed /\ ~last.dry_run /\ last.winners # {}
    /\ \E r \in last.before :
           /\ r.symbol_code = last.symbol_code
           /\ r.trade_date \notin WinnerDates
           /\ r \in liquid

\* C26: in the rows of one run of process_symbol, when the entries i-1 and i
\* have the same contract_id, prev_close of entry i equals price_close of entry
\* i-1 (both undefined, or both defined and equal)
C26_PrevCloseChainsWithinContract ==
    Processed =>
        \A i \in RowIndexes \ {1} :
            LiquidContractOn(last.rows[i].trade_date)
                = LiquidContractOn(last.rows[i - 1].trade_date)
            => last.rows[i].prev_close = last.rows[i - 1].price_close

\* a run over three entries: the first two of one contract with a defined close
\* carried over, the third of another contract whose prev_close differs from
\* the close of the entry before
C26_Witness ==
    /\ Processed /\ Len(last.rows) = 3
    /\ LiquidContractOn(last.rows[2].trade_date) = LiquidContractOn(last.rows[1].trade_date)
    /\ last.rows[1].price_close # NULL
    /\ last.rows[2].prev_close = last.rows[1].price_close
    /\ LiquidContractOn(last.rows[3].trade_date) # LiquidContractOn(last.rows[2].trade_date)
    /\ last.rows[3].prev_close # last.rows[2].price_close

\* contract c has a bar on date d that the open-window filter admits (a bar
\* starting from 10:00 on and before 10:30)
ContractHasWindowBar(c, d) ==
    \E b \in BarsOn(c, d) : Mins(b) >= 600 /\ Mins(b) < 630

\* C27: open-window eligibility belongs to the date, not to the winning
\* contract: a date on which some contract passes the expiry and volume
\* filters has a winner exactly when any contract of the symbol (also one
\* without last_trade_date or outside the expiry window) has a bar in the
\* window, whether or not the winner has a window bar of its own
C27_WindowIsPerDate ==
    Computed =>
        \A d \in SymbolDates(last.symbol_code) :
            HasCandidate(last.symbol_code, d) =>
                ( d \in WinnerDates
                  <=> \E c \in ContractsOf(last.symbol_code) : ContractHasWindowBar(c, d) )

\* a winner without a bar in the window on its date, the date admitted by a
\* bar of a contract that cannot win (no last_trade_date, or expired)
C27_Witness ==
    /\ Computed
    /\ \E w \in last.winners :
           /\ ~ContractHasWindowBar(w[2], w[1])
           /\ \A c \in ContractsOf(last.symbol_code) :
                  ContractHasWindowBar(c, w[1]) => ~PassesExpiry(c, w[1])

----------------------------------------------------------------------------
\* Frame of the two pipeline stages

OtherRows(table, symbol_code) == {r \in table : r.symbol_code # symbol_code}

\* C28: a run of compute_liquid_contracts or process_symbol for a symbol
\* changes no row of another symbol in the liquid-contract and reference-price
\* tables, and changes neither the bars nor the contracts
C28_OtherSymbolsUntouched ==
    [][last'.op \in {"compute_liquid_contracts", "process_symbol"} =>
          /\ OtherRows(liquid', last'.symbol_code) = OtherRows(liquid, last'.symbol_code)
          /\ OtherRows(refp', last'.symbol_code) = OtherRows(refp, last'.symbol_code)
          /\ bars' = bars
          /\ contracts' = contracts]_vars

\* a non-dry run of process_symbol that wrote a row for a date on which the
\* other symbol has a stored liquid contract and a stored reference price
C28_Witness ==
    /\ Processed /\ ~last.dry_run
    /\ refp # last.before
    /\ \E r \in refp : \E o \in refp : \E l \in liquid :
           /\ r.symbol_code = last.symbol_code
           /\ o.symbol_code # last.symbol_code /\ o.trade_date = r.trade_date
           /\ l.symbol_code # last.symbol_code /\ l.trade_date = r.trade_date
           /\ r \notin last.before

----------------------------------------------------------------------------
\* Properties of the weekend-aware statistics across gaps and ranges

WeekendAwareRun == StatsComputed /\ last.op = "calc_overnight_stats_we"

CalendarGap(i) == DateOf(i) - DateOf(i - 1)

StoredBeforeFirst ==
    {p \in refp : /\ p.symbol_code = last.symbol_code
                  /\ p.trade_date < DateOf(1)
                  /\ ~\E q \in refp : /\ q.symbol_code = last.symbol_code
                                       /\ p.trade_date < q.trade_date
                                       /\ q.trade_date < DateOf(1)}

\* C30: in the weekend-aware statistics the previous trading day is the row
\* before within the requested range: the first row of the range is neither
\* 'business' nor 'weekend', also when its prev_close is present, and its
\* overnight return is then defined and is the first value of the 'Overnight
\* (all)' series
C30_FirstRowOfRangeUnclassified ==
    (WeekendAwareRun /\ Len(last.returns) > 0) =>
        LET row == last.returns[1]
            r == SourceRow(1)
        IN  /\ row["overnight_weekend_log"] = NaN
            /\ row["overnight_business_log"] = NaN
            /\ (r.price_open # NULL /\ r.prev_close \notin {NULL, 0}) =>
                   /\ row["overnight_log"] = <<r.price_open, r.prev_close>>
                   /\ last.stats["overnight_log"].n > 0
                   /\ last.stats["overnight_log"].sample[1] = row["overnight_log"]

\* a run over a range that starts on a Monday whose Friday is stored before
\* the range: the Monday has a prev_close and a defined overnight return
C30_Witness ==
    /\ WeekendAwareRun /\ Len(last.returns) > 0
    /\ last.range[1] # NULL
    /\ IsMonday(DateOf(1))
    /\ \E p \in StoredBeforeFirst : IsFriday(p.trade_date)
    /\ SourceRow(1).prev_close # NULL
    /\ last.returns[1]["overnight_log"] # NaN

====
